---- MODULE Spec2Model ----
(***************************************************************************)
(* kaiwadb: the Document schema base class, the Field() descriptor factory *)
(* and the ObjectId adapter type, as state machines.                       *)
(*                                                                         *)
(* Spec     a class body declares fields with Field(), the class is        *)
(*          created, instances are validated from mappings and dumped.     *)
(* SpecOid  a schema with one ObjectId-typed field is validated from       *)
(*          python input or from JSON input and dumped in either mode.     *)
(***************************************************************************)
EXTENDS Integers, Sequences, FiniteSets, TLC

VARIABLES
    pc,        \* "class_body" | "defined" | "aborted" (Spec); "oid" (SpecOid)
    fields,    \* declared attribute name -> FieldInfo, in declaration order
    calls,     \* declared attribute name -> the Field() call written for it
    input,     \* the mapping handed to the latest construction
    obj,       \* outcome of the latest construction
    dumped,    \* outcome of the latest serialization
    oidRun     \* latest validation / serialization of the ObjectId field

vars == <<pc, fields, calls, input, obj, dumped, oidRun>>

----------------------------------------------------------------------------
(* Bounds *)

\* plain field values and defaults are the integers 1..MaxVal
MaxVal == 2

\* bytes in an identifier (bson: 12), scaled down; its hex text has twice as
\* many characters, and input texts run one character past that
OidBytes == 1

----------------------------------------------------------------------------
(* Python objects: one record shape per Python type *)

None == [ty |-> "NoneType"]
Ellipsis == [ty |-> "ellipsis"]
PyStr(s) == [ty |-> "str", s |-> s]
PyInt(i) == [ty |-> "int", i |-> i]
PyList(items) == [ty |-> "list", items |-> items]
PyTuple(doc, key) == [ty |-> "tuple", doc |-> doc, key |-> key]

\* outcome of a call: an exception raised, or a value returned
Raised(e) == [raised |-> e, value |-> None]
Returned(v) == [raised |-> "", value |-> v]

----------------------------------------------------------------------------
(* document.py *)

\* pydantic.Field(default=..., alias=..., description=...): the FieldInfo
PydanticField(default, alias, description) ==
    [ty |-> "FieldInfo", default |-> default, alias |-> alias,
     description |-> description]

\* mutants of Field (plausible slips in its body)
Field_truthy(default, db_name, description, examples, relation) ==
    IF examples \notin {None, PyList(<<>>)} THEN Raised("NotImplementedError")
    ELSE IF relation \notin {None, PyList(<<>>)} THEN Raised("NotImplementedError")
    ELSE Returned(PydanticField(default, db_name, description))

Field_noAlias(default, db_name, description, examples, relation) ==
    IF examples # None THEN Raised("NotImplementedError")
    ELSE IF relation # None THEN Raised("NotImplementedError")
    ELSE Returned(PydanticField(default, None, description))

Field_aliasFromDescription(default, db_name, description, examples, relation) ==
    IF examples # None THEN Raised("NotImplementedError")
    ELSE IF relation # None THEN Raised("NotImplementedError")
    ELSE Returned(PydanticField(default, description, db_name))

Field_defaultDropped(default, db_name, description, examples, relation) ==
    IF examples # None THEN Raised("NotImplementedError")
    ELSE IF relation # None THEN Raised("NotImplementedError")
    ELSE Returned(PydanticField(Ellipsis, db_name, description))

\* def Field(default=..., db_name=None, description=None, examples=None, relation=None)
Field(default, db_name, description, examples, relation) ==
    IF examples # None THEN Raised("NotImplementedError")
    ELSE IF relation # None THEN Raised("NotImplementedError")
    ELSE Returned(PydanticField(default, db_name, description))

\* the attributes a schema may declare, in declaration order
AttrNames == <<"customer_id", "email">>

\* keys an external mapping may carry: the attribute names and a database name
KeyNames == {"customer_id", "email", "id"}

IntValues == {PyInt(i) : i \in 1..MaxVal}

\* arguments a class body passes to Field()
Defaults == {Ellipsis} \cup IntValues
DbNames(n) == {None, PyStr("id"), PyStr(n)}
Descriptions == {None, PyStr("Unique customer identifier")}
ExamplesArgs == {None, PyList(<<>>), PyList(<<PyStr("x")>>)}
RelationArgs == {None, PyList(<<>>), PyTuple("User", "id")}

\* a FieldInfo with default=... is required (pydantic: Ellipsis means no default)
is_required(info) == info.default = Ellipsis

\* the key a field is read from and, by_alias, written to: its alias when one
\* is set, else its attribute name (Document sets no model_config)
external_name(name, info) ==
    IF info.alias = None THEN name ELSE info.alias.s

\* the attributes of the schema that cannot be filled from mapping m
missing(fs, m) ==
    {n \in DOMAIN fs :
        external_name(n, fs[n]) \notin DOMAIN m /\ is_required(fs[n])}

\* Document.model_validate(m): fields are looked up by external name, an
\* absent field takes its default, unknown keys are ignored
model_validate(fs, m) ==
    IF missing(fs, m) # {}
    THEN [raised |-> "ValidationError", errors |-> missing(fs, m),
          attrs |-> [n \in {} |-> None]]
    ELSE [raised |-> "", errors |-> {},
          attrs |-> [n \in DOMAIN fs |->
                        IF external_name(n, fs[n]) \in DOMAIN m
                        THEN m[external_name(n, fs[n])]
                        ELSE fs[n].default]]

\* Document.model_dump(by_alias=...)
dump_keys(fs, by_alias) ==
    {IF by_alias THEN external_name(n, fs[n]) ELSE n : n \in DOMAIN fs}

model_dump(fs, attrs, by_alias) ==
    [k \in dump_keys(fs, by_alias) |->
        attrs[CHOOSE n \in DOMAIN fs :
                 /\ k = (IF by_alias THEN external_name(n, fs[n]) ELSE n)
                 /\ \A o \in DOMAIN fs :
                       k = (IF by_alias THEN external_name(o, fs[o]) ELSE o)
                       => \E i, j \in 1..Len(AttrNames) :
                             AttrNames[i] = o /\ AttrNames[j] = n /\ i <= j]]

----------------------------------------------------------------------------
(* Spec: class definition, construction, serialization *)

NoObj == [raised |-> "none", errors |-> {}, attrs |-> [n \in {} |-> None]]
NoDump == [by_alias |-> FALSE, out |-> [n \in {} |-> None], done |-> FALSE]
NoOid == [phase |-> "idle", mode |-> "", inp |-> None,
          res |-> [raised |-> "none", value |-> None, ctor |-> FALSE],
          ser |-> "", out |-> None]

Init ==
    /\ pc = "class_body"
    /\ fields = [n \in {} |-> None]
    /\ calls = [n \in {} |-> None]
    /\ input = [n \in {} |-> None]
    /\ obj = NoObj
    /\ dumped = NoDump
    /\ oidRun = NoOid

NextAttr == AttrNames[Cardinality(DOMAIN fields) + 1]

\* one attribute line of the class body: name: T = Field(...)
DeclareField ==
    /\ pc = "class_body"
    /\ Cardinality(DOMAIN fields) < Len(AttrNames)
    /\ \E default \in Defaults, db_name \in DbNames(NextAttr), description \in Descriptions,
          examples \in ExamplesArgs, relation \in RelationArgs :
          LET r == Field(default, db_name, description, examples, relation) IN
          /\ calls' = calls @@ (NextAttr :>
                          [default |-> default, db_name |-> db_name,
                           description |-> description, examples |-> examples,
                           relation |-> relation, result |-> r])
          /\ IF r.raised # ""
             THEN pc' = "aborted" /\ fields' = fields
             ELSE pc' = pc /\ fields' = fields @@ (NextAttr :> r.value)
    /\ UNCHANGED <<input, obj, dumped, oidRun>>

\* the end of the class body: the Document subclass exists
EndClass ==
    /\ pc = "class_body"
    /\ DOMAIN fields # {}
    /\ pc' = "defined"
    /\ UNCHANGED <<fields, calls, input, obj, dumped, oidRun>>

Mappings == UNION {[ks -> IntValues] : ks \in SUBSET KeyNames}

\* Model.model_validate(m) / Model(**m)
Construct ==
    /\ pc = "defined"
    /\ \E m \in Mappings :
          /\ input' = m
          /\ obj' = model_validate(fields, m)
    /\ dumped' = NoDump
    /\ UNCHANGED <<pc, fields, calls, oidRun>>

\* instance.model_dump(by_alias=b)
Dump ==
    /\ pc = "defined"
    /\ obj.raised = ""
    /\ \E b \in BOOLEAN :
          dumped' = [by_alias |-> b, out |-> model_dump(fields, obj.attrs, b),
                     done |-> TRUE]
    /\ UNCHANGED <<pc, fields, calls, input, obj, oidRun>>

Next == DeclareField \/ EndClass \/ Construct \/ Dump

Spec == Init /\ [][Next]_vars

----------------------------------------------------------------------------
(* types/object_id.py *)

PyText(chars) == [ty |-> "str", chars |-> chars]
PyBytes(nibbles) == [ty |-> "bytes", nibbles |-> nibbles]
\* an identifier object: its class and its binary value (as hex nibbles)
PyOid(cls, binary) == [ty |-> "ObjectId", cls |-> cls, binary |-> binary]

\* outcome of building or validating an identifier; ctor: the native
\* constructor ran
OidRaised(e, ctor) == [raised |-> e, value |-> None, ctor |-> ctor]
OidReturned(v, ctor) == [raised |-> "", value |-> v, ctor |-> ctor]

LowerHex == <<"0","1","2","3","4","5","6","7","8","9","a","b","c","d","e","f">>
UpperHex == <<"0","1","2","3","4","5","6","7","8","9","A","B","C","D","E","F">>
HexLen == 2 * OidBytes

\* value of one hex character, -1 when it is none
hexval(c) ==
    IF \E i \in 1..16 : LowerHex[i] = c
    THEN (CHOOSE i \in 1..16 : LowerHex[i] = c) - 1
    ELSE IF \E i \in 1..16 : UpperHex[i] = c
    THEN (CHOOSE i \in 1..16 : UpperHex[i] = c) - 1
    ELSE -1

\* bytes.fromhex(text): the nibbles, or a ValueError
fromhex_ok(chars) == \A i \in 1..Len(chars) : hexval(chars[i]) >= 0
fromhex(chars) == [i \in 1..Len(chars) |-> hexval(chars[i])]

\* binascii.hexlify(binary).decode(): lower-case hex text
hexlify(binary) == [i \in 1..Len(binary) |-> LowerHex[binary[i] + 1]]

\* bson.ObjectId.__init__(oid): None generates a fresh identifier, bytes of
\* the identifier length are taken as they are, another ObjectId is copied,
\* text must be hex of the identifier length (InvalidId otherwise), anything
\* else is a TypeError
bson_init(oid, fresh) ==
    IF oid = None THEN [raised |-> "", binary |-> fresh]
    ELSE IF oid.ty = "bytes" /\ Len(oid.nibbles) = HexLen
    THEN [raised |-> "", binary |-> oid.nibbles]
    ELSE IF oid.ty = "ObjectId" THEN [raised |-> "", binary |-> oid.binary]
    ELSE IF oid.ty = "str"
    THEN IF Len(oid.chars) = HexLen /\ fromhex_ok(oid.chars)
         THEN [raised |-> "", binary |-> fromhex(oid.chars)]
         ELSE [raised |-> "InvalidId", binary |-> <<>>]
    ELSE [raised |-> "TypeError", binary |-> <<>>]

\* mutant: the argument is not passed on, cls() generates an identifier
ObjectId_new_noArg(x, fresh) ==
    OidReturned(PyOid("kaiwadb.ObjectId", bson_init(None, fresh).binary), TRUE)

\* class ObjectId(_ObjectId): cls(x) runs the inherited constructor
ObjectId_new(x, fresh) ==
    LET r == bson_init(x, fresh) IN
    IF r.raised # "" THEN OidRaised(r.raised, TRUE)
    ELSE OidReturned(PyOid("kaiwadb.ObjectId", r.binary), TRUE)

\* str(x): the hex text of an identifier; a str is its own str()
str_(x) == IF x.ty = "ObjectId" THEN PyText(hexlify(x.binary)) ELSE x

\* bson.ObjectId.__eq__
oid_eq(a, b) == a.ty = "ObjectId" /\ b.ty = "ObjectId" /\ a.binary = b.binary

\* core_schema.is_instance_schema(_ObjectId)
is_instance_schema(x) ==
    IF x.ty = "ObjectId" THEN OidReturned(x, FALSE)
    ELSE OidRaised("ValidationError", FALSE)

\* core_schema.no_info_plain_validator_function(lambda x: cls(x)): of what the
\* function raises only ValueError and AssertionError become validation
\* errors; InvalidId and TypeError are neither
validator_function(x, fresh) == ObjectId_new(x, fresh)

\* mutant: the union without its is_instance branch
python_schema_noIsInstance(x, fresh) == validator_function(x, fresh)

\* python_schema = union_schema([is_instance_schema, plain validator]): the
\* first choice that accepts wins; an exception that is no validation error
\* leaves the union at once
python_schema(x, fresh) ==
    IF is_instance_schema(x).raised = "" THEN is_instance_schema(x)
    ELSE validator_function(x, fresh)

\* json_schema = core_schema.str_schema(): a JSON string is accepted as str
json_schema(x) ==
    IF x.ty = "str" THEN OidReturned(x, FALSE)
    ELSE OidRaised("ValidationError", FALSE)

\* core_schema.json_or_python_schema(json_schema=..., python_schema=...)
json_or_python_schema(mode, x, fresh) ==
    IF mode = "json" THEN json_schema(x) ELSE python_schema(x, fresh)

\* plain_serializer_function_ser_schema(lambda x: str(x), when_used="json")
serializer_function(x) == str_(x)

serialization(mode, v) ==
    IF mode = "json" THEN serializer_function(v) ELSE v

----------------------------------------------------------------------------
(* SpecOid: a Document subclass with one field annotated ObjectId *)

\* a lower-case hex digit, an upper-case hex digit, and no hex digit
Alphabet == {"a", "A", "g"}
Texts == UNION {[1..k -> Alphabet] : k \in 0..(HexLen + 1)}
Nibbles == {0, 10}
Binaries == [1..HexLen -> Nibbles]
OidClasses == {"bson.ObjectId", "kaiwadb.ObjectId"}
NativeOids == {PyOid(c, b) : c \in OidClasses, b \in Binaries}
ByteStrings ==
    {PyBytes(b) : b \in UNION {[1..(2 * k) -> Nibbles] : k \in 0..(OidBytes + 1)}}

\* what python code can hand over, and what a JSON document can carry
PythonInputs ==
    {PyText(t) : t \in Texts} \cup NativeOids \cup ByteStrings
        \cup {None, PyInt(1)}
JsonInputs == {PyText(t) : t \in Texts} \cup {None, PyInt(1)}

\* the identifiers the generator may produce when one is asked for
Generated(x) == IF x = None THEN Binaries ELSE {[i \in 1..HexLen |-> 0]}

OidRun(phase, mode, inp, res, ser, out) ==
    [phase |-> phase, mode |-> mode, inp |-> inp, res |-> res, ser |-> ser,
     out |-> out]

InitOid ==
    /\ pc = "oid"
    /\ fields = [n \in {} |-> None]
    /\ calls = [n \in {} |-> None]
    /\ input = [n \in {} |-> None]
    /\ obj = NoObj
    /\ dumped = NoDump
    /\ oidRun = NoOid

\* ObjectId(x), called directly
NewOid ==
    /\ pc = "oid"
    /\ \E x \in PythonInputs : \E fresh \in Generated(x) :
          oidRun' = OidRun("constructed", "", x, ObjectId_new(x, fresh), "", None)
    /\ UNCHANGED <<pc, fields, calls, input, obj, dumped>>

\* str(oid) of the identifier just constructed
StrOid ==
    /\ pc = "oid"
    /\ oidRun.phase = "constructed"
    /\ oidRun.res.raised = ""
    /\ oidRun' = [oidRun EXCEPT !.phase = "rendered",
                                !.out = str_(oidRun.res.value)]
    /\ UNCHANGED <<pc, fields, calls, input, obj, dumped>>

\* Model(id=x) / Model.model_validate({"id": x})
ValidatePython ==
    /\ pc = "oid"
    /\ \E x \in PythonInputs : \E fresh \in Generated(x) :
          oidRun' = OidRun("validated", "python", x,
                           json_or_python_schema("python", x, fresh), "", None)
    /\ UNCHANGED <<pc, fields, calls, input, obj, dumped>>

\* Model.model_validate_json('{"id": x}')
ValidateJson ==
    /\ pc = "oid"
    /\ \E x \in JsonInputs : \E fresh \in Generated(x) :
          oidRun' = OidRun("validated", "json", x,
                           json_or_python_schema("json", x, fresh), "", None)
    /\ UNCHANGED <<pc, fields, calls, input, obj, dumped>>

\* instance.model_dump(mode=m)
DumpOid ==
    /\ pc = "oid"
    /\ oidRun.phase \in {"validated", "dumped"}
    /\ oidRun.res.raised = ""
    /\ \E m \in {"python", "json"} :
          oidRun' = [oidRun EXCEPT !.phase = "dumped", !.ser = m,
                                   !.out = serialization(m, oidRun.res.value)]
    /\ UNCHANGED <<pc, fields, calls, input, obj, dumped>>

NextOid == NewOid \/ StrOid \/ ValidatePython \/ ValidateJson \/ DumpOid

SpecOid == InitOid /\ [][NextOid]_vars

----------------------------------------------------------------------------
(* Properties of Field() and of schemas built with it (checked under Spec) *)

\* the Field() calls written so far, and what the class body wrote in them
Declared == DOMAIN calls
Built == obj.raised # "none"
Constructed == obj.raised = ""
DeclExt(n) == IF calls[n].db_name = None THEN n ELSE calls[n].db_name.s
OthersFilled(n) == missing(fields, input) \ {n} = {}

\* C1: whatever default, db_name and description are, Field raises
\* NotImplementedError and returns no descriptor when examples is not None or
\* relation is not None (also for [] and when both are given); it returns a
\* descriptor only when both are None.  A raise aborts the class body.
C1_FieldRejectsExamplesAndRelation ==
    \A n \in Declared :
        LET c == calls[n] IN
        /\ (c.examples # None \/ c.relation # None)
              => /\ c.result = Raised("NotImplementedError")
                 /\ n \notin DOMAIN fields
                 /\ pc = "aborted"
        /\ (c.examples = None /\ c.relation = None)
              => /\ c.result.raised = ""
                 /\ c.result.value.ty = "FieldInfo"
                 /\ n \in DOMAIN fields
        /\ (c.result.raised = "") <=> (c.examples = None /\ c.relation = None)

C1_Witness ==
    \E n \in Declared :
        /\ calls[n].examples = PyList(<<>>)
        /\ calls[n].relation = None
        /\ calls[n].result.raised = "NotImplementedError"
        /\ pc = "aborted"

\* C2 as stated: for a field declared with db_name = X, X different from the
\* attribute name, a mapping with key X and without the attribute name
\* constructs the schema and sets the attribute; a mapping with the attribute
\* name and without X fails with a validation failure.
C2_AliasOnly_AsStated ==
    \A n \in DOMAIN fields :
        (Built /\ calls[n].db_name # None /\ DeclExt(n) # n) =>
            /\ (DeclExt(n) \in DOMAIN input /\ n \notin DOMAIN input
                /\ OthersFilled(n))
                  => (Constructed /\ obj.attrs[n] = input[DeclExt(n)])
            /\ (n \in DOMAIN input /\ DeclExt(n) \notin DOMAIN input)
                  => obj.raised = "ValidationError"

\* C2 amended: the same, but the mapping that carries only the attribute name
\* fails (with the field reported missing) when the field is required; when the
\* field has a default the value under the attribute name is ignored and the
\* field holds the default.
C2_AliasOnly ==
    \A n \in DOMAIN fields :
        (Built /\ calls[n].db_name # None /\ DeclExt(n) # n) =>
            /\ (DeclExt(n) \in DOMAIN input /\ n \notin DOMAIN input
                /\ OthersFilled(n))
                  => (Constructed /\ obj.attrs[n] = input[DeclExt(n)])
            /\ (n \in DOMAIN input /\ DeclExt(n) \notin DOMAIN input)
                  => IF calls[n].default = Ellipsis
                     THEN obj.raised = "ValidationError" /\ n \in obj.errors
                     ELSE /\ n \notin obj.errors
                          /\ Constructed => obj.attrs[n] = calls[n].default

C2_Witness ==
    /\ Constructed
    /\ \E n \in DOMAIN fields :
          /\ calls[n].db_name = PyStr("id")
          /\ "id" \in DOMAIN input /\ n \notin DOMAIN input
          /\ obj.attrs[n] = input["id"]

\* C3: a field declared without db_name has its attribute name as external
\* name: it is read from that key of the mapping, and a by_alias dump writes
\* it under that key.
C3_NoAliasKeepsName ==
    \A n \in DOMAIN fields :
        calls[n].db_name = None =>
            /\ external_name(n, fields[n]) = n
            /\ (Built /\ n \notin DOMAIN input /\ calls[n].default = Ellipsis)
                  => n \in obj.errors
            /\ (Constructed /\ n \in DOMAIN input) => obj.attrs[n] = input[n]
            /\ (dumped.done /\ dumped.by_alias) =>
                  /\ n \in DOMAIN dumped.out
                  /\ (\A o \in DOMAIN fields \ {n} : DeclExt(o) # n)
                        => dumped.out[n] = obj.attrs[n]

C3_Witness ==
    /\ dumped.done /\ dumped.by_alias
    /\ \E n \in DOMAIN fields :
          /\ calls[n].db_name = None
          /\ n \in DOMAIN input
          /\ dumped.out[n] = input[n]

\* C4: round trip through the external form.  A mapping M whose keys are the
\* external names of the schema's fields (db_name where given, else the
\* attribute name) constructs an instance that reads each value under its
\* attribute name, and the by_alias dump of that instance is M.
C4_ExternalRoundTrip ==
    (Built /\ DOMAIN input = {DeclExt(n) : n \in DOMAIN fields}) =>
        /\ Constructed
        /\ \A n \in DOMAIN fields : obj.attrs[n] = input[DeclExt(n)]
        /\ (dumped.done /\ dumped.by_alias) => dumped.out = input

C4_Witness ==
    /\ DOMAIN fields = {"customer_id", "email"}
    /\ calls["customer_id"].db_name = PyStr("id")
    /\ calls["email"].db_name = None
    /\ DOMAIN input = {"id", "email"}
    /\ input["id"] # input["email"]
    /\ Constructed
    /\ obj.attrs["customer_id"] = input["id"]
    /\ dumped.done /\ dumped.by_alias /\ dumped.out = input

\* C5: a field declared with default = ... is required: construction without
\* a value for it fails.  With any other default d, construction without a
\* value leaves the field holding d.  A supplied value wins over d.
C5_DefaultOrRequired ==
    \A n \in DOMAIN fields :
        Built =>
            /\ (calls[n].default = Ellipsis /\ DeclExt(n) \notin DOMAIN input)
                  => (obj.raised = "ValidationError" /\ n \in obj.errors)
            /\ (calls[n].default # Ellipsis /\ DeclExt(n) \notin DOMAIN input)
                  => /\ n \notin obj.errors
                     /\ OthersFilled(n) => Constructed
                     /\ Constructed => obj.attrs[n] = calls[n].default
            /\ (DeclExt(n) \in DOMAIN input /\ Constructed)
                  => obj.attrs[n] = input[DeclExt(n)]

C5_Witness ==
    /\ Constructed
    /\ \E n, o \in DOMAIN fields :
          /\ calls[n].default \in IntValues
          /\ DeclExt(n) \notin DOMAIN input
          /\ obj.attrs[n] = calls[n].default
          /\ calls[o].default \in IntValues
          /\ DeclExt(o) \in DOMAIN input
          /\ obj.attrs[o] = input[DeclExt(o)]
          /\ obj.attrs[o] # calls[o].default

----------------------------------------------------------------------------
(* Properties of the ObjectId adapter (checked under SpecOid) *)

\* a canonical identifier text: lower-case hex of the identifier length
IsCanonical(x) ==
    /\ x.ty = "str"
    /\ Len(x.chars) = HexLen
    /\ \A i \in 1..Len(x.chars) : \E j \in 1..16 : LowerHex[j] = x.chars[i]

\* a text the native constructor refuses
NativeRejects(x) == x.ty = "str" /\ bson_init(x, <<>>).raised # ""

Validated == oidRun.phase \in {"validated", "dumped"}

\* C6: a native identifier v given to ObjectId(...) yields an identifier equal
\* to v; given to an ObjectId-typed field it is accepted as it is: the field
\* holds v itself (same class, same value) and the constructor did not run.
C6_NativeAcceptedUnchanged ==
    oidRun.inp.ty = "ObjectId" =>
        /\ oidRun.phase \in {"constructed", "rendered"}
              => (oidRun.res.raised = "" /\ oid_eq(oidRun.res.value, oidRun.inp))
        /\ (Validated /\ oidRun.mode = "python")
              => /\ oidRun.res.raised = ""
                 /\ oidRun.res.value = oidRun.inp
                 /\ ~oidRun.res.ctor

C6_Witness ==
    /\ oidRun.phase = "validated"
    /\ oidRun.mode = "python"
    /\ oidRun.inp \in NativeOids
    /\ oidRun.inp.cls = "bson.ObjectId"
    /\ oidRun.res.value = oidRun.inp

\* C7: for a canonical identifier text s, ObjectId(s) succeeds and str() of
\* the result is s.
C7_StringRoundTrip ==
    (oidRun.phase \in {"constructed", "rendered"} /\ IsCanonical(oidRun.inp)) =>
        /\ oidRun.res.raised = ""
        /\ oidRun.res.value.ty = "ObjectId"
        /\ str_(oidRun.res.value) = oidRun.inp
        /\ oidRun.phase = "rendered" => oidRun.out = oidRun.inp

C7_Witness ==
    /\ oidRun.phase = "rendered"
    /\ IsCanonical(oidRun.inp)
    /\ oidRun.out = oidRun.inp

\* C8: a text that is no valid identifier makes ObjectId(...) fail, and given
\* to an ObjectId-typed field it goes to the native constructor, whose own
\* failure reaches the caller as it is, so no instance exists.
C8_InvalidTextRejected ==
    NativeRejects(oidRun.inp) =>
        /\ oidRun.phase \in {"constructed", "rendered"}
              => oidRun.res.raised = "InvalidId"
        /\ Validated
              => /\ oidRun.res.raised = "InvalidId"
                 /\ oidRun.res.ctor

\* C9: a JSON-mode dump of an ObjectId-typed field is the canonical text of
\* the identifier the field holds, however it was obtained; a python-mode dump
\* is the native identifier itself.
C9_SerializedForm ==
    oidRun.phase = "dumped" =>
        /\ oidRun.ser = "json"
              => /\ IsCanonical(oidRun.out)
                 /\ oidRun.res.value.ty = "ObjectId"
                 /\ oidRun.out = PyText(hexlify(oidRun.res.value.binary))
        /\ oidRun.ser = "python"
              => /\ oidRun.out = oidRun.res.value
                 /\ oidRun.out.ty = "ObjectId"

\* C10: after a successful validation, from python input or from JSON input,
\* the ObjectId-typed field holds a native identifier, never a raw text; an
\* input the python path refuses is refused by the JSON path too.
C10_FieldHoldsIdentifier ==
    (Validated /\ oidRun.res.raised = "") =>
        /\ oidRun.res.value.ty = "ObjectId"
        /\ Len(oidRun.res.value.binary) = HexLen
        /\ \A fresh \in Binaries :
              json_or_python_schema("python", oidRun.inp, fresh).raised = ""

====
